---------------------------- MODULE Spec2Model ----------------------------
(***************************************************************************)
(* A model of backend/main.py: the per-connection WebSocket session       *)
(* (websocket_endpoint), the ConversationManager it drives, and the        *)
(* follow-up generation with its keyword validation and fallbacks.         *)
(*                                                                         *)
(* Text is modelled as a sequence of characters, each character a          *)
(* one-element string; a character outside ASCII (an emoji) is one token   *)
(* such as "U+1F914".                                                      *)
(***************************************************************************)
EXTENDS Integers, Sequences, FiniteSets, TLC

VARIABLES
    conversation_history, \* ConversationManager.conversation_history
    follow_up_count,      \* ConversationManager.follow_up_count
    pc,                   \* where the handler coroutine of the connection stands
    sent,                 \* every message passed to websocket.send_json, in order
    message_data,         \* the frame the handler decoded last
    base,                 \* Len(sent) when that frame was received
    bonus_package,        \* the local bonus_package of the reveal sequence
    connected,            \* FALSE once the peer is gone
    nframes,              \* frames received so far
    model_configured,     \* whether the module has a global named model
    response,             \* what the last call of the model did
    gen_pc,               \* the call of generate_follow_up_question under test
    gen_input,
    gen_count,
    gen_outcome,
    gen_result,
    an_pc,                \* the calls of analyze_conversation under test
    an_history,
    an_first,
    an_second,
    managers,             \* the ConversationManager objects created so far
    conversation,         \* the local conversation of each connection's handler
    task                  \* the handler coroutine of each connection

vars == <<conversation_history, follow_up_count, pc, sent, message_data, base,
          bonus_package, connected, nframes, model_configured, response,
          gen_pc, gen_input, gen_count, gen_outcome, gen_result,
          an_pc, an_history, an_first, an_second,
          managers, conversation, task>>

sessionVars == <<conversation_history, follow_up_count, pc, sent, message_data,
                 base, bonus_package, connected, nframes, model_configured,
                 response>>

genVars == <<gen_pc, gen_input, gen_count, gen_outcome, gen_result>>

anVars == <<an_pc, an_history, an_first, an_second>>

\* what a session never touches
twoVars == <<managers, conversation, task>>

unitVars == <<genVars, anVars, twoVars>>

-----------------------------------------------------------------------------
(* Bounds of the model *)

MaxFrames == 5

MaxGenCount == 3

-----------------------------------------------------------------------------
(* Python's str operations, as the code uses them *)

Range(s) == {s[i] : i \in 1..Len(s)}

Min(a, b) == IF a < b THEN a ELSE b

LowerLetters == <<"a","b","c","d","e","f","g","h","i","j","k","l","m","n","o","p","q","r","s","t","u","v","w","x","y","z">>

UpperLetters == <<"A","B","C","D","E","F","G","H","I","J","K","L","M","N","O","P","Q","R","S","T","U","V","W","X","Y","Z">>

DigitChars == <<"0","1","2","3","4","5","6","7","8","9">>

SpaceChars == {" ", "\t", "\n"}

\* \w of the re module
IsWordChar(c) ==
    c \in Range(LowerLetters) \cup Range(UpperLetters) \cup Range(DigitChars) \cup {"_"}

\* \s of the re module, and the characters str.strip() and str.split() drop
IsSpace(c) == c \in SpaceChars

LowerChar(c) ==
    IF c \in Range(UpperLetters)
    THEN LowerLetters[CHOOSE i \in 1..Len(UpperLetters) : UpperLetters[i] = c]
    ELSE c

\* str.lower()
Lower(s) == [i \in 1..Len(s) |-> LowerChar(s[i])]

\* s[:n]
Take(s, n) == SubSeq(s, 1, Min(n, Len(s)))

\* needle in hay
Contains(hay, needle) ==
    \E i \in 0..(Len(hay) - Len(needle)) : SubSeq(hay, i + 1, i + Len(needle)) = needle

\* str.strip(chars): drop the leading and trailing characters that are in cs
StripSet(s, cs) ==
    LET keep == {i \in 1..Len(s) : s[i] \notin cs}
    IN  IF keep = {} THEN <<>>
        ELSE LET lo == CHOOSE i \in keep : \A j \in keep : i <= j
                 hi == CHOOSE i \in keep : \A j \in keep : j <= i
             IN  SubSeq(s, lo, hi)

\* a handler that forgets to strip
StripNothing(s) == s

\* str.strip()
Strip(s) == StripSet(s, SpaceChars)

RECURSIVE SplitFrom(_, _, _)
\* the words of s from position i on; cur is the word being read
SplitFrom(s, i, cur) ==
    IF i > Len(s) THEN (IF cur = <<>> THEN <<>> ELSE <<cur>>)
    ELSE IF IsSpace(s[i])
         THEN (IF cur = <<>> THEN <<>> ELSE <<cur>>) \o SplitFrom(s, i + 1, <<>>)
         ELSE SplitFrom(s, i + 1, Append(cur, s[i]))

\* str.split()
Split(s) == SplitFrom(s, 1, <<>>)

RECURSIVE Join(_, _)
\* sep.join(parts)
Join(parts, sep) ==
    IF parts = <<>> THEN <<>>
    ELSE IF Len(parts) = 1 THEN parts[1]
    ELSE parts[1] \o sep \o Join(Tail(parts), sep)

\* insert w behind every word at least as long: equal lengths keep their order
InsertByLen(sorted, w) ==
    LET n == Cardinality({i \in 1..Len(sorted) : Len(sorted[i]) >= Len(w)})
    IN  SubSeq(sorted, 1, n) \o <<w>> \o SubSeq(sorted, n + 1, Len(sorted))

RECURSIVE SortFrom(_, _, _)
SortFrom(ws, i, acc) ==
    IF i > Len(ws) THEN acc ELSE SortFrom(ws, i + 1, InsertByLen(acc, ws[i]))

\* a list left in the order of the text
KeepOrder(ws) == ws

\* list.sort(key=len, reverse=True): stable, longest first
SortByLenDesc(ws) == SortFrom(ws, 1, <<>>)

-----------------------------------------------------------------------------
(* ConversationManager *)

max_follow_ups == 3

stop_words ==
    { <<"i">>, <<"m","e">>, <<"m","y">>, <<"m","y","s","e","l","f">>, <<"w","e">>, <<"o","u","r">>, <<"o","u","r","s">>, <<"o","u","r","s","e","l","v","e","s">>,
      <<"y","o","u">>, <<"y","o","u","r">>, <<"y","o","u","r","s">>, <<"y","o","u","r","s","e","l","f">>, <<"y","o","u","r","s","e","l","v","e","s">>, <<"h","e">>, <<"h","i","m">>,
      <<"h","i","s">>, <<"h","i","m","s","e","l","f">>, <<"s","h","e">>, <<"h","e","r">>, <<"h","e","r","s">>, <<"h","e","r","s","e","l","f">>, <<"i","t">>, <<"i","t","s">>,
      <<"i","t","s","e","l","f">>, <<"t","h","e","y">>, <<"t","h","e","m">>, <<"t","h","e","i","r">>, <<"t","h","e","i","r","s">>, <<"t","h","e","m","s","e","l","v","e","s">>, <<"w","h","a","t">>,
      <<"w","h","i","c","h">>, <<"w","h","o">>, <<"w","h","o","m">>, <<"t","h","i","s">>, <<"t","h","a","t">>, <<"t","h","e","s","e">>, <<"t","h","o","s","e">>, <<"a","m">>,
      <<"i","s">>, <<"a","r","e">>, <<"w","a","s">>, <<"w","e","r","e">>, <<"b","e">>, <<"b","e","e","n">>, <<"b","e","i","n","g">>, <<"h","a","v","e">>, <<"h","a","s">>,
      <<"h","a","d">>, <<"h","a","v","i","n","g">>, <<"d","o">>, <<"d","o","e","s">>, <<"d","i","d">>, <<"d","o","i","n","g">>, <<"a">>, <<"a","n">>, <<"t","h","e">>,
      <<"a","n","d">>, <<"b","u","t">>, <<"i","f">>, <<"o","r">>, <<"b","e","c","a","u","s","e">>, <<"a","s">>, <<"u","n","t","i","l">>, <<"w","h","i","l","e">>,
      <<"o","f">>, <<"a","t">>, <<"b","y">>, <<"f","o","r">>, <<"w","i","t","h">>, <<"a","b","o","u","t">>, <<"a","g","a","i","n","s","t">>, <<"b","e","t","w","e","e","n">>,
      <<"i","n","t","o">>, <<"t","h","r","o","u","g","h">>, <<"d","u","r","i","n","g">>, <<"b","e","f","o","r","e">>, <<"a","f","t","e","r">>, <<"a","b","o","v","e">>, <<"b","e","l","o","w">>,
      <<"t","o">>, <<"f","r","o","m">>, <<"u","p">>, <<"d","o","w","n">>, <<"i","n">>, <<"o","u","t">>, <<"o","n">>, <<"o","f","f">>, <<"o","v","e","r">>,
      <<"u","n","d","e","r">>, <<"a","g","a","i","n">>, <<"f","u","r","t","h","e","r">>, <<"t","h","e","n">>, <<"o","n","c","e">>, <<"j","u","s","t">>, <<"v","e","r","y">>,
      <<"r","e","a","l","l","y">> }

\* the words that are no stop word and longer than 2, longest first, at most
\* three of them; when there is none, the first two words of the cleaned text
extract_keywords(text) ==
    LET cleaned_text == SelectSeq(Lower(text), LAMBDA c : IsWordChar(c) \/ IsSpace(c))
        words == Split(cleaned_text)
        keywords == SortByLenDesc(
                        SelectSeq(words, LAMBDA w : w \notin stop_words /\ Len(w) > 2))
    IN  IF keywords # <<>> THEN Take(keywords, 3) ELSE Take(words, 2)

\* the list named keywords in generate_follow_up_question
follow_up_keywords(user_input) ==
    LET keywords == extract_keywords(user_input)
    IN  IF keywords = <<>> THEN Take(Split(user_input), 2) ELSE keywords

keyword_to_use(user_input) ==
    LET keywords == follow_up_keywords(user_input)
    IN  IF keywords # <<>> THEN keywords[1] ELSE <<"t","h","a","t">>

\* a chain whose second test is missing
trigger_style_two_way(count) ==
    IF count = 0 THEN "curiosity_opener" ELSE "deep_dive"

trigger_style(count) ==
    IF count = 0 THEN "curiosity_opener"
    ELSE IF count = 1 THEN "pattern_interrupt"
    ELSE "deep_dive"

\* response.text.strip(), then the double quotes, the single quotes and the
\* backticks (the character U+0060) stripped from both ends, in this order
strip_quotes(text) ==
    StripSet(StripSet(StripSet(Strip(text), {"\""}), {"'"}), {"U+0060"})

\* a validation that lets every text pass
keyword_missing_unchecked(keyword, question) == FALSE

\* keyword_to_use.lower() not in follow_up_question.lower()
keyword_missing(keyword, question) == ~Contains(Lower(question), Lower(keyword))

\* the question put in place of a model text that lacks the keyword
style_fallback(style, keyword) ==
    IF style = "curiosity_opener"
    THEN <<"W","a","i","t",","," ","y","o","u"," ","s","a","i","d"," ","'">> \o keyword
         \o <<"'"," ","-"," ","t","h","a","t"," ","w","o","r","d"," ","c","a","u","g","h","t"," ","m","y"," ","a","t","t","e","n","t","i","o","n","."," ","W","h","a","t","'","s"," ","t","h","e"," ","s","t","o","r","y"," ","b","e","h","i","n","d"," ","c","h","o","o","s","i","n","g"," ","T","H","A","T"," ","w","o","r","d","?"," ","U+1F914">>
    ELSE IF style = "pattern_interrupt"
    THEN <<"H","o","l","d"," ","u","p","."," ","L","e","t"," ","m","e"," ","c","h","a","l","l","e","n","g","e"," ","'">> \o keyword
         \o <<"'"," ","f","o","r"," ","a"," ","s","e","c","o","n","d"," ","-"," ","w","h","a","t"," ","i","f"," ","i","t","'","s"," ","n","o","t"," ","w","h","a","t"," ","y","o","u"," ","t","h","i","n","k"," ","i","t"," ","i","s","?"," ","U+1F60F">>
    ELSE <<"I","f"," ","'">> \o keyword
         \o <<"'"," ","w","a","s"," ","a"," ","p","e","r","s","o","n"," ","s","i","t","t","i","n","g"," ","a","c","r","o","s","s"," ","f","r","o","m"," ","y","o","u"," ","r","i","g","h","t"," ","n","o","w",","," ","w","h","a","t"," ","w","o","u","l","d"," ","y","o","u"," ","s","a","y"," ","t","o"," ","t","h","e","m","?"," ","U+1F4AD">>

\* the question returned from the except branch
exception_fallback(keyword) ==
    <<"H","m","m",","," ","'">> \o keyword \o <<"'"," ","s","t","u","c","k"," ","w","i","t","h"," ","m","e","."," ","T","e","l","l"," ","m","e"," ","m","o","r","e","?"," ","U+1F914">>

\* what model.generate_content does for one call: it raises, or it is not there
\* at all (ok = FALSE), or it returns a text
ModelFailure == [ok |-> FALSE, text |-> <<>>]

ModelReturns(text) == [ok |-> TRUE, text |-> text]

\* count is self.follow_up_count at the call, outcome what the model does
generate_follow_up_question(user_input, count, outcome) ==
    LET keyword == keyword_to_use(user_input)
        style == trigger_style(count)
    IN  IF ~outcome.ok
        THEN exception_fallback(keyword)
        ELSE LET follow_up_question == strip_quotes(outcome.text)
             IN  IF keyword_missing(keyword, follow_up_question)
                 THEN style_fallback(style, keyword)
                 ELSE follow_up_question

\* > where the code has >=
is_complete_strict(count) == count > max_follow_ups

is_complete(count) == count >= max_follow_ups

-----------------------------------------------------------------------------
(* PersonalityAnalyzer *)

PersonalityName(key) ==
    CASE key = "rebel_learner" -> "The Rebel Learner"
      [] key = "passionate_explorer" -> "The Passionate Explorer"
      [] key = "practical_builder" -> "The Practical Builder"
      [] key = "thoughtful_analyst" -> "The Thoughtful Analyst"
      [] key = "adaptive_chameleon" -> "The Adaptive Chameleon"

DefaultAnalysisType == "The Mystery Explorer"

\* any(word in text for word in words)
AnyIn(words, text) == \E w \in words : Contains(text, w)

all_responses(history) ==
    Join([i \in 1..Len(history) |-> Lower(history[i].user)], <<" ">>)

\* the rules with practical_builder tried before passionate_explorer
personality_key_reordered(history) ==
    LET all == all_responses(history)
        word_count == Len(Split(all))
        has_strong_negatives == AnyIn({<<"h","a","t","e">>, <<"d","e","s","p","i","s","e">>, <<"c","a","n","'","t"," ","s","t","a","n","d">>, <<"n","e","v","e","r">>}, all)
        has_strong_positives == AnyIn({<<"l","o","v","e">>, <<"a","d","o","r","e">>, <<"p","a","s","s","i","o","n","a","t","e">>, <<"e","x","c","i","t","e","d">>}, all)
        has_questions == AnyIn({<<"?">>, <<"w","h","y">>, <<"h","o","w">>, <<"w","h","a","t"," ","i","f">>}, all)
        has_action_words == AnyIn({<<"d","o">>, <<"b","u","i","l","d">>, <<"m","a","k","e">>, <<"c","r","e","a","t","e">>, <<"t","r","y">>}, all)
        uses_specifics ==
            AnyIn({<<"w","h","e","n">>, <<"b","e","c","a","u","s","e">>, <<"e","x","a","m","p","l","e">>, <<"s","p","e","c","i","f","i","c","a","l","l","y">>, <<"a","c","t","u","a","l","l","y">>}, all)
        is_detailed == word_count > 8 * Len(history)
    IN  IF has_questions /\ has_strong_negatives THEN "rebel_learner"
        ELSE IF has_action_words /\ uses_specifics THEN "practical_builder"
        ELSE IF has_strong_positives /\ is_detailed THEN "passionate_explorer"
        ELSE IF is_detailed /\ ~has_action_words THEN "thoughtful_analyst"
        ELSE "adaptive_chameleon"

personality_key(history) ==
    LET all == all_responses(history)
        word_count == Len(Split(all))
        has_strong_negatives == AnyIn({<<"h","a","t","e">>, <<"d","e","s","p","i","s","e">>, <<"c","a","n","'","t"," ","s","t","a","n","d">>, <<"n","e","v","e","r">>}, all)
        has_strong_positives == AnyIn({<<"l","o","v","e">>, <<"a","d","o","r","e">>, <<"p","a","s","s","i","o","n","a","t","e">>, <<"e","x","c","i","t","e","d">>}, all)
        has_questions == AnyIn({<<"?">>, <<"w","h","y">>, <<"h","o","w">>, <<"w","h","a","t"," ","i","f">>}, all)
        has_action_words == AnyIn({<<"d","o">>, <<"b","u","i","l","d">>, <<"m","a","k","e">>, <<"c","r","e","a","t","e">>, <<"t","r","y">>}, all)
        uses_specifics ==
            AnyIn({<<"w","h","e","n">>, <<"b","e","c","a","u","s","e">>, <<"e","x","a","m","p","l","e">>, <<"s","p","e","c","i","f","i","c","a","l","l","y">>, <<"a","c","t","u","a","l","l","y">>}, all)
        \* word_count / len(history) > 8
        is_detailed == word_count > 8 * Len(history)
    IN  IF has_questions /\ has_strong_negatives THEN "rebel_learner"
        ELSE IF has_strong_positives /\ is_detailed THEN "passionate_explorer"
        ELSE IF has_action_words /\ uses_specifics THEN "practical_builder"
        ELSE IF is_detailed /\ ~has_action_words THEN "thoughtful_analyst"
        ELSE "adaptive_chameleon"

\* the "type" of the analysis
analyze_conversation(history) ==
    IF history = <<>> THEN DefaultAnalysisType
    ELSE PersonalityName(personality_key(history))

\* random.randint(10, 20) and random.randint(0, 15)
EngagementDraws == 10..20

HonestyDraws == 0..15

\* a score whose draw, when high, also overrides the category
with_engagement_swaying(result, history, draw) ==
    [result EXCEPT
        !.engagement_score = Min(100, Len(Split(all_responses(history))) * 3 + draw),
        !.type = IF draw > 15 THEN PersonalityName("adaptive_chameleon") ELSE @]

\* engagement_score = min(100, int(word_count * 3 + random.randint(10, 20)))
with_engagement(result, history, draw) ==
    [result EXCEPT
        !.engagement_score = Min(100, Len(Split(all_responses(history))) * 3 + draw)]

\* honesty_score = 85 + random.randint(0, 15)
with_honesty(result, draw) == [result EXCEPT !.honesty_level = 85 + draw]

\* what _get_default_analysis returns, as far as the model keeps it
default_analysis ==
    [type |-> DefaultAnalysisType, engagement_score |-> 50, honesty_level |-> 90]

\* the personality of the bundle; its other parts are fixed texts chosen by it
get_ultimate_bonus_package(history) ==
    [personality_type |-> analyze_conversation(history)]

NoBonus == [personality_type |-> ""]

-----------------------------------------------------------------------------
(* The frames a peer sends and the messages the server sends *)

\* what the peer may put in "message": nothing, blanks, a sentence in blanks
ProtocolTexts == {<<>>, <<" ">>, <<" ","I"," ","h","a","t","e"," ","m","a","t","h"," ">>}

\* texts that are not blank, for the runs that send nothing else
ValidTexts == {<<" ","I"," ","h","a","t","e"," ","m","a","t","h"," ">>, <<"w","h","y"," ","b","u","i","l","d","?">>}

\* the texts the model returns in a session
ProtocolReplies == {<<"\"","W","h","y"," ","h","a","t","e","?","\"">>}

ChoiceIds == {"reveal", "skip", "other"}

Frame(type, message, choice_id) ==
    [type |-> type, message |-> message, choice_id |-> choice_id]

NoFrame == Frame("#none", <<>>, "")

\* a frame json.loads rejects, or one that is no object, or whose "message" is
\* no string: message_data.get or .strip() raises
MalformedFrame == Frame("#malformed", <<>>, "")

Msg(type, message) ==
    [type |-> type, message |-> message, question |-> <<>>, number |-> 0,
     total |-> 0, personality_type |-> "", options |-> <<>>, insights_shared |-> 0]

ErrorMsg(message) == Msg("error", message)

EmptyInitialText == "Come on, give me something real to work with!"

UnknownTypeText == "Hmm, didn't catch that. Try again?"

ExceptionText == "Oops, something went sideways. Mind trying that again?"

FollowUpMsg(question, number, total) ==
    [Msg("follow_up", "") EXCEPT !.question = question, !.number = number, !.total = total]

\* the k-th message of the sequence an answer starts once the session is complete
RevealMessage(k, bonus) ==
    CASE k = 1 -> Msg("complete", "Thanks, we have got your data.")
      [] k = 2 -> Msg("thinking", "Wait...")
      [] k = 3 -> Msg("thinking", "I'm analyzing what you just told me...")
      [] k = 4 -> Msg("thinking", "Okay, I think I figured you out. This is scary accurate...")
      [] k = 5 -> [Msg("personality_reveal", "") EXCEPT
                      !.personality_type = bonus.personality_type]
      [] k = 6 -> Msg("mind_reading", "")
      [] k = 7 -> [Msg("secret_unlock", "") EXCEPT
                      !.personality_type = bonus.personality_type]
      [] k = 8 -> [Msg("interactive_choice", "Want to see what I REALLY think about you?")
                      EXCEPT !.options = <<"reveal", "skip">>]

\* a sequence that stops before the choice
RevealStepsShort == 8 - 1

RevealSteps == 8

UltimateRevealMsg(personality_type) ==
    [Msg("ultimate_reveal", "") EXCEPT !.personality_type = personality_type]

FinaleMsg(history) == [Msg("finale", "") EXCEPT !.insights_shared = Len(history)]

RespectfulEndingMsg ==
    Msg("respectful_ending", "Respect. Not everyone wants the full deep-dive.")

-----------------------------------------------------------------------------
(* websocket_endpoint: one connection *)

At(place) == [at |-> place, step |-> 0]

\* suspended in the sleep that follows the k-th message of the reveal sequence
InReveal(k) == [at |-> "reveal", step |-> k]

\* what a call of the model may do in this process
ModelOutcomes(configured) ==
    IF configured
    THEN {ModelFailure} \cup {ModelReturns(r) : r \in ProtocolReplies}
    ELSE {ModelFailure}

\* a turn that is not stored
add_to_history_dropped(history, user_message, ai_response) == history

add_to_history(history, user_message, ai_response) ==
    Append(history, [user |-> user_message, ai |-> ai_response])

\* a counter that is never advanced
increment_follow_up_forgotten(count) == count

increment_follow_up(count) == count + 1

GenIdle ==
    /\ gen_pc = "off"
    /\ gen_input = <<>>
    /\ gen_count = 0
    /\ gen_outcome = ModelFailure
    /\ gen_result = <<>>

NoAnalysis == [type |-> "", engagement_score |-> 0, honesty_level |-> 0]

AnIdle ==
    /\ an_pc = [call |-> 0, at |-> "off"]
    /\ an_history = <<>>
    /\ an_first = NoAnalysis
    /\ an_second = NoAnalysis

\* no connection of the two-connection runs exists
TwoIdle ==
    /\ managers = <<>>
    /\ conversation = <<>>
    /\ task = <<>>

SessionInit ==
    /\ conversation_history = <<>>
    /\ follow_up_count = 0
    /\ pc = At("recv")
    /\ sent = <<>>
    /\ message_data = NoFrame
    /\ base = 0
    /\ bonus_package = NoBonus
    /\ connected = TRUE
    /\ nframes = 0
    /\ model_configured \in BOOLEAN
    /\ response = ModelFailure

Init == SessionInit /\ GenIdle /\ AnIdle /\ TwoIdle

\* websocket.receive_text() returns a frame
ReceiveWithin(limit, frame) ==
    /\ pc = At("recv")
    /\ connected
    /\ nframes < limit
    /\ message_data' = frame
    /\ base' = Len(sent)
    /\ nframes' = nframes + 1
    /\ UNCHANGED <<connected, model_configured>>
    /\ UNCHANGED unitVars

Receive(frame) == ReceiveWithin(MaxFrames, frame)

\* a generation whose failure reaches the except branch of the endpoint
FollowUpRaising(user_message, outcome) ==
    IF outcome.ok
    THEN LET follow_up ==
                 generate_follow_up_question(user_message, follow_up_count, outcome)
             count == follow_up_count + 1
         IN  /\ conversation_history' =
                    Append(conversation_history, [user |-> user_message, ai |-> follow_up])
             /\ follow_up_count' = count
             /\ sent' = Append(sent, FollowUpMsg(follow_up, count, max_follow_ups))
             /\ pc' = At("recv")
             /\ response' = outcome
             /\ UNCHANGED bonus_package
    ELSE /\ sent' = Append(sent, ErrorMsg(ExceptionText))
         /\ pc' = At("done")
         /\ response' = outcome
         /\ UNCHANGED <<conversation_history, follow_up_count, bonus_package>>

\* generate the question, record the turn, count it, send it
FollowUp(user_message, outcome) ==
    LET follow_up == generate_follow_up_question(user_message, follow_up_count, outcome)
        count == increment_follow_up(follow_up_count)
    IN  /\ conversation_history' = add_to_history(conversation_history, user_message, follow_up)
        /\ follow_up_count' = count
        /\ sent' = Append(sent, FollowUpMsg(follow_up, count, max_follow_ups))
        /\ pc' = At("recv")
        /\ response' = outcome
        /\ UNCHANGED bonus_package

\* the branch of message_type == "initial"
HandleInitial(user_message, outcome) ==
    IF user_message = <<>>
    THEN /\ sent' = Append(sent, ErrorMsg(EmptyInitialText))
         /\ pc' = At("recv")
         /\ UNCHANGED <<conversation_history, follow_up_count, bonus_package, response>>
    ELSE FollowUp(user_message, outcome)

\* a branch that records the answer before it starts the reveal sequence
HandleAnswerStoring(user_message, outcome) ==
    IF is_complete(follow_up_count)
    THEN /\ sent' = Append(sent, RevealMessage(1, bonus_package))
         /\ pc' = InReveal(1)
         /\ conversation_history' = add_to_history(conversation_history, user_message, <<>>)
         /\ UNCHANGED <<follow_up_count, bonus_package, response>>
    ELSE FollowUp(user_message, outcome)

\* the branch of message_type == "answer"
HandleAnswer(user_message, outcome) ==
    IF is_complete(follow_up_count)
    THEN /\ sent' = Append(sent, RevealMessage(1, bonus_package))
         /\ pc' = InReveal(1)
         /\ UNCHANGED <<conversation_history, follow_up_count, bonus_package, response>>
    ELSE FollowUp(user_message, outcome)

\* the loop going on where the code breaks out of it
ChoiceContinue == At("recv")

\* the break that ends the branch of choice_response, whatever the choice
ChoiceBreak == At("done")

\* a skip that is answered by nothing
HandleChoiceSkipSilent(choice_id) ==
    IF choice_id = "reveal"
    THEN /\ sent' = Append(sent, UltimateRevealMsg(
                        get_ultimate_bonus_package(conversation_history).personality_type))
         /\ pc' = At("finale")
         /\ UNCHANGED <<conversation_history, follow_up_count, bonus_package, response>>
    ELSE /\ pc' = At("done")
         /\ UNCHANGED <<sent, conversation_history, follow_up_count, bonus_package, response>>

\* the branch of message_type == "choice_response", up to its first sleep
HandleChoice(choice_id) ==
    IF choice_id = "reveal"
    THEN /\ sent' = Append(sent, UltimateRevealMsg(
                        get_ultimate_bonus_package(conversation_history).personality_type))
         /\ pc' = At("finale")
         /\ UNCHANGED <<conversation_history, follow_up_count, bonus_package, response>>
    ELSE IF choice_id = "skip"
    THEN /\ sent' = Append(sent, RespectfulEndingMsg)
         /\ pc' = ChoiceBreak
         /\ UNCHANGED <<conversation_history, follow_up_count, bonus_package, response>>
    ELSE /\ pc' = ChoiceBreak
         /\ UNCHANGED <<sent, conversation_history, follow_up_count, bonus_package, response>>

\* a frame of type "initial" whose "message" is one of texts
RecvInitialFrom(texts) ==
    \E text \in texts : \E outcome \in ModelOutcomes(model_configured) :
        /\ Receive(Frame("initial", text, ""))
        /\ HandleInitial(Strip(text), outcome)

\* a frame of type "answer" whose "message" is one of texts
RecvAnswerFrom(texts) ==
    \E text \in texts : \E outcome \in ModelOutcomes(model_configured) :
        /\ Receive(Frame("answer", text, ""))
        /\ HandleAnswer(Strip(text), outcome)

RecvInitial == RecvInitialFrom(ProtocolTexts)

RecvAnswer == RecvAnswerFrom(ProtocolTexts)

RecvChoice ==
    \E choice_id \in ChoiceIds :
        /\ Receive(Frame("choice_response", <<>>, choice_id))
        /\ HandleChoice(choice_id)

\* an unknown type that is passed over in silence
RecvUnknownSilent ==
    /\ Receive(Frame("#unknown", <<>>, ""))
    /\ pc' = At("recv")
    /\ UNCHANGED <<sent, conversation_history, follow_up_count, bonus_package, response>>

\* any other "type", or none
RecvUnknown ==
    /\ Receive(Frame("#unknown", <<>>, ""))
    /\ sent' = Append(sent, ErrorMsg(UnknownTypeText))
    /\ pc' = At("recv")
    /\ UNCHANGED <<conversation_history, follow_up_count, bonus_package, response>>

\* except Exception: one last error message, then the handler returns
RecvMalformed ==
    /\ Receive(MalformedFrame)
    /\ sent' = Append(sent, ErrorMsg(ExceptionText))
    /\ pc' = At("done")
    /\ UNCHANGED <<conversation_history, follow_up_count, bonus_package, response>>

\* the sleep after the k-th message ends: the next message of the sequence
RevealStep ==
    /\ pc.at = "reveal"
    /\ connected
    /\ LET k == pc.step + 1
           bonus == IF k = 5 THEN get_ultimate_bonus_package(conversation_history)
                    ELSE bonus_package
       IN  /\ bonus_package' = bonus
           /\ sent' = Append(sent, RevealMessage(k, bonus))
           /\ pc' = IF k = RevealSteps THEN At("recv") ELSE InReveal(k)
    /\ UNCHANGED <<conversation_history, follow_up_count, message_data, base,
                   connected, nframes, model_configured, response>>
    /\ UNCHANGED unitVars

\* a finale after which the loop goes on
FinaleWithoutBreak ==
    /\ pc = At("finale")
    /\ connected
    /\ sent' = Append(sent, FinaleMsg(conversation_history))
    /\ pc' = At("recv")
    /\ UNCHANGED <<conversation_history, follow_up_count, message_data, base,
                   bonus_package, connected, nframes, model_configured, response>>
    /\ UNCHANGED unitVars

\* the sleep after ultimate_reveal ends: finale, then break
Finale ==
    /\ pc = At("finale")
    /\ connected
    /\ sent' = Append(sent, FinaleMsg(conversation_history))
    /\ pc' = ChoiceBreak
    /\ UNCHANGED <<conversation_history, follow_up_count, message_data, base,
                   bonus_package, connected, nframes, model_configured, response>>
    /\ UNCHANGED unitVars

\* a peer whose leaving does not end the handler
DisconnectIgnored ==
    /\ pc.at # "done"
    /\ connected
    /\ connected' = FALSE
    /\ UNCHANGED <<conversation_history, follow_up_count, pc, sent, message_data, base,
                   bonus_package, nframes, model_configured, response>>
    /\ UNCHANGED unitVars

\* the peer goes away: receive_text or the next send_json raises, nothing more
\* is sent, the handler returns
Disconnect ==
    /\ pc.at # "done"
    /\ connected
    /\ connected' = FALSE
    /\ pc' = At("done")
    /\ UNCHANGED <<conversation_history, follow_up_count, sent, message_data, base,
                   bonus_package, nframes, model_configured, response>>
    /\ UNCHANGED unitVars

Next ==
    \/ RecvInitial
    \/ RecvAnswer
    \/ RecvChoice
    \/ RecvUnknown
    \/ RecvMalformed
    \/ RevealStep
    \/ Finale
    \/ Disconnect

Spec == Init /\ [][Next]_vars

-----------------------------------------------------------------------------
(* generate_follow_up_question on its own: every input, count and outcome *)

GenInputs ==
    { <<>>,
      <<"I"," ","h","a","t","e"," ","s","t","u","d","y","i","n","g"," ","b","e","c","a","u","s","e"," ","i","t","'","s"," ","p","o","i","n","t","l","e","s","s">>,
      <<"?","?","?">>,
      <<"I"," ","a","m">>,
      <<"'">>,
      <<"L","o","v","e"," "," ","C","O","D","I","N","G","!">>,
      <<"g","o">> }

GenReplies ==
    { <<>>,
      <<"T","e","l","l"," ","m","e"," ","m","o","r","e">>,
      <<"\"","W","h","a","t"," ","m","a","k","e","s"," ","S","T","U","D","Y","I","N","G"," ","s","o"," ","P","o","i","n","t","l","e","s","s","?","\"">>,
      <<" "," ","U+0060","'","i"," ","l","o","v","e"," ","i","t","'","U+0060","\n">>,
      <<"G","o"," ","o","n",","," ","w","h","a","t"," ","d","o"," ","y","o","u"," ","L","O","V","E"," ","a","b","o","u","t"," ","c","o","d","i","n","g","?">>,
      <<"'","\"","W","h","y"," ","i","s"," ","s","t","u","d","y","i","n","g"," ","p","o","i","n","t","l","e","s","s","?","\"","'">>,
      <<"'">> }

GenOutcomes == {ModelFailure} \cup {ModelReturns(r) : r \in GenReplies}

GenInit ==
    /\ SessionInit
    /\ gen_pc = "ready"
    /\ gen_input \in GenInputs
    /\ gen_count \in 0..MaxGenCount
    /\ gen_outcome \in GenOutcomes
    /\ gen_result = <<>>
    /\ AnIdle
    /\ TwoIdle

GenCall ==
    /\ gen_pc = "ready"
    /\ gen_result' = generate_follow_up_question(gen_input, gen_count, gen_outcome)
    /\ gen_pc' = "returned"
    /\ UNCHANGED <<gen_input, gen_count, gen_outcome>>
    /\ UNCHANGED sessionVars
    /\ UNCHANGED <<anVars, twoVars>>

GenNext == GenCall

SpecGen == GenInit /\ [][GenNext]_vars

-----------------------------------------------------------------------------
(* Runs of one session in which the peer sends only certain frames *)

\* the peer sends nothing but answers, blank or not
OnlyAnswers == RecvAnswerFrom(ProtocolTexts \cup ValidTexts)

AnswersNext ==
    \/ OnlyAnswers
    \/ RevealStep

SpecAnswers == Init /\ [][AnswersNext]_vars

\* the peer opens with a valid initial and goes on with valid answers
ScenarioAnswers == max_follow_ups

ScenarioInitial ==
    /\ nframes = 0
    /\ RecvInitialFrom(ValidTexts)

ScenarioAnswer ==
    /\ nframes \in 1..ScenarioAnswers
    /\ RecvAnswerFrom(ValidTexts)

ScenarioNext ==
    \/ ScenarioInitial
    \/ ScenarioAnswer
    \/ RevealStep

SpecScenario == Init /\ [][ScenarioNext]_vars

\* the peer opens with the sentence of the design's example
OpeningText == <<"I"," ","h","a","t","e"," ","s","t","u","d","y","i","n","g"," ","b","e","c","a","u","s","e"," ","i","t","'","s"," ","p","o","i","n","t","l","e","s","s">>

OpeningReplies == {<<"W","h","y"," ","p","o","i","n","t","l","e","s","s","?">>, <<"\"","W","h","y"," ","h","a","t","e","?","\"">>}

OpeningOutcomes(configured) ==
    IF configured
    THEN {ModelFailure} \cup {ModelReturns(r) : r \in OpeningReplies}
    ELSE {ModelFailure}

OpeningInitial ==
    /\ nframes = 0
    /\ \E outcome \in OpeningOutcomes(model_configured) :
          /\ Receive(Frame("initial", OpeningText, ""))
          /\ HandleInitial(Strip(OpeningText), outcome)

OpeningNext ==
    \/ OpeningInitial
    \/ ScenarioAnswer
    \/ RevealStep

SpecOpening == Init /\ [][OpeningNext]_vars

\* the peer goes through the questions and, once it has the prompt, sends
\* frames of any kind
LateFrames == 2

\* the interactive_choice prompt was sent at some time
Prompted == \E i \in 1..Len(sent) : sent[i].type = "interactive_choice"

ReceiveLate(frame) ==
    /\ Prompted
    /\ ReceiveWithin(ScenarioAnswers + 1 + LateFrames, frame)

LateInitial ==
    \E text \in ValidTexts : \E outcome \in ModelOutcomes(model_configured) :
        /\ ReceiveLate(Frame("initial", text, ""))
        /\ HandleInitial(Strip(text), outcome)

LateAnswer ==
    \E text \in ValidTexts : \E outcome \in ModelOutcomes(model_configured) :
        /\ ReceiveLate(Frame("answer", text, ""))
        /\ HandleAnswer(Strip(text), outcome)

LateChoice ==
    \E choice_id \in ChoiceIds :
        /\ ReceiveLate(Frame("choice_response", <<>>, choice_id))
        /\ HandleChoice(choice_id)

LateNext ==
    \/ ScenarioInitial
    \/ ScenarioAnswer
    \/ RevealStep
    \/ LateInitial
    \/ LateAnswer
    \/ LateChoice
    \/ Finale

SpecLate == Init /\ [][LateNext]_vars

\* the peer follows the design to the end: it stays connected, answers every
\* question and, when it has the prompt, chooses reveal or skip
DesignChoices == {"reveal", "skip"}

ScenarioChoice ==
    /\ Prompted
    /\ nframes = ScenarioAnswers + 1
    /\ \E choice_id \in DesignChoices :
          /\ Receive(Frame("choice_response", <<>>, choice_id))
          /\ HandleChoice(choice_id)

DesignNext ==
    \/ ScenarioInitial
    \/ ScenarioAnswer
    \/ RevealStep
    \/ ScenarioChoice
    \/ Finale

\* the handler waits in receive_text and the peer has a frame left to send
FrameDue ==
    /\ pc = At("recv")
    /\ connected
    /\ nframes < MaxFrames
    /\ \/ nframes \in 0..ScenarioAnswers
       \/ nframes = ScenarioAnswers + 1 /\ Prompted

\* a frame of the peer is received and handled
FrameStep == ScenarioInitial \/ ScenarioAnswer \/ ScenarioChoice

\* the handler sleeps inside the reveal sequence
Sleeping == pc.at = "reveal" /\ connected

\* every sleep ends, the peer sends its next frame, and every call of the
\* model returns or raises: weak fairness of Finale, of RevealStep and of
\* FrameStep, for the last two written out with the conditions Sleeping and
\* FrameDue under which they can be taken
SpecDesignFair ==
    /\ Init
    /\ [][DesignNext]_vars
    /\ WF_vars(Finale)
    /\ ([]<>(~Sleeping) \/ []<><<RevealStep>>_vars)
    /\ ([]<>(~FrameDue) \/ []<><<FrameStep>>_vars)

-----------------------------------------------------------------------------
(* What the claims speak of *)

TypesOf(msgs) == [i \in 1..Len(msgs) |-> msgs[i].type]

\* the messages sent since the last frame came in
SentSince == SubSeq(sent, base + 1, Len(sent))

LastSent == sent[Len(sent)]

Blank(text) == \A i \in 1..Len(text) : text[i] \in {" ", "\t", "\n"}

RevealTypes ==
    <<"complete", "thinking", "thinking", "thinking", "personality_reveal",
      "mind_reading", "secret_unlock", "interactive_choice">>

\* the phase of the design's state machine, read off the state of the handler
Phase ==
    IF pc.at = "done" THEN "TERMINATED"
    ELSE IF pc.at \in {"reveal", "finale"} THEN "REVEALING"
    ELSE IF \E i \in 1..Len(sent) : sent[i].type = "interactive_choice" THEN "AWAITING_CHOICE"
    ELSE IF follow_up_count = 0 THEN "AWAITING_INITIAL"
    ELSE "QUESTIONING"

\* this step received a frame of the given type
Received(type) == nframes' = nframes + 1 /\ message_data'.type = type

-----------------------------------------------------------------------------
(* C1: every question generate_follow_up_question returns, be it the model's
   text, the fallback for a text without the keyword or the fallback of the
   except branch, contains keyword_to_use when both are lower-cased. *)
C1_KeywordInQuestion ==
    gen_pc = "returned" =>
        Contains(Lower(gen_result), Lower(keyword_to_use(gen_input)))

\* the model's text is returned, and holds the keyword in another case
C1_Witness ==
    /\ gen_pc = "returned"
    /\ gen_outcome.ok
    /\ gen_result = strip_quotes(gen_outcome.text)
    /\ gen_result # gen_outcome.text
    /\ ~Contains(gen_result, keyword_to_use(gen_input))

(* C2: a personality_reveal message is sent only when follow_up_count is
   exactly max_follow_ups at the moment it is sent. *)
C2_RevealExactlyAtMax ==
    (pc = InReveal(5) /\ LastSent.type = "personality_reveal") =>
        follow_up_count = max_follow_ups

(* C3: when the peer sends only answer frames, whatever their number and
   texts, follow_up_count never exceeds max_follow_ups, and an answer received
   while is_complete() holds leaves the counter as it is. *)
C3_AnswersNeverExceedMax ==
    /\ [](follow_up_count <= max_follow_ups)
    /\ [][(Received("answer") /\ follow_up_count >= max_follow_ups)
            => follow_up_count' = follow_up_count]_vars

\* a second answer arrived after the counter had reached the maximum
C3_Witness ==
    /\ follow_up_count = max_follow_ups
    /\ nframes = max_follow_ups + 2
    /\ message_data.type = "answer"
    /\ pc = InReveal(1)

(* C4: in every reachable state, under any interleaving of initial, answer,
   choice_response and unknown frames, follow_up_count <= max_follow_ups, and
   every follow_up message carries number <= total. *)
C4_CountNeverExceedsMax ==
    /\ follow_up_count <= max_follow_ups
    /\ \A i \in 1..Len(sent) :
          sent[i].type = "follow_up" => sent[i].number <= sent[i].total

(* C5: an initial frame whose text is empty or only whitespace yields exactly
   one error message, changes neither follow_up_count nor
   conversation_history, and leaves the handler waiting for the next frame,
   however often it is sent. *)
C5_BlankInitialRejected ==
    [][(Received("initial") /\ Blank(message_data'.message)) =>
          /\ sent' = Append(sent, ErrorMsg(EmptyInitialText))
          /\ follow_up_count' = follow_up_count
          /\ conversation_history' = conversation_history
          /\ pc' = At("recv")
          /\ connected']_vars

\* a whitespace-only initial was rejected for the second time, mid-session
C5_Witness ==
    /\ message_data.type = "initial"
    /\ message_data.message = <<" ">>
    /\ Len(sent) >= 3
    /\ LastSent = ErrorMsg(EmptyInitialText)
    /\ sent[Len(sent) - 1] = ErrorMsg(EmptyInitialText)
    /\ follow_up_count = 1
    /\ pc = At("recv")

(* C6: what the handler of the answer that starts the reveal sequence has
   sent is, at every sleep, the first messages of complete, thinking,
   thinking, thinking, personality_reveal, mind_reading, secret_unlock,
   interactive_choice, and all eight of them once it is through; the last one
   offers exactly the options reveal and skip. *)
C6_RevealSequenceInOrder ==
    /\ pc.at = "reveal" => TypesOf(SentSince) = SubSeq(RevealTypes, 1, pc.step)
    /\ (/\ pc = At("recv")
        /\ message_data.type = "answer"
        /\ Len(sent) > base
        /\ sent[base + 1].type = "complete") =>
            /\ TypesOf(SentSince) = RevealTypes
            /\ LastSent.options = <<"reveal", "skip">>

\* the sequence ran to its end
C6_Witness ==
    /\ pc = At("recv")
    /\ message_data.type = "answer"
    /\ Len(SentSince) = 8
    /\ LastSent.type = "interactive_choice"

(* C7: after a non-empty initial, the first and the second valid answer are
   each answered by one follow_up and leave the session questioning; the third
   starts the reveal sequence, once, with follow_up_count = 3, and leaves the
   session waiting for the choice after its eight messages. *)
C7_ThreeAnswersThenReveal ==
    /\ (pc = At("recv") /\ nframes \in {2, 3}) =>
          /\ Phase = "QUESTIONING"
          /\ TypesOf(sent) = [i \in 1..nframes |-> "follow_up"]
          /\ LastSent.number = nframes
    /\ pc.at = "reveal" => (nframes = 4 /\ follow_up_count = 3)
    /\ (pc = At("recv") /\ nframes = 4) =>
          /\ Phase = "AWAITING_CHOICE"
          /\ follow_up_count = 3
          /\ TypesOf(sent) = <<"follow_up", "follow_up", "follow_up">> \o RevealTypes

\* the third answer has been handled to the end
C7_Witness ==
    /\ pc = At("recv")
    /\ nframes = 4
    /\ LastSent.type = "interactive_choice"
    /\ Len(conversation_history) = 3

(* C8: a choice_response with choice_id "skip" sends one respectful_ending
   message and nothing else, and the handler returns: no step follows. *)
C8_SkipEndsSession ==
    [][/\ (Received("choice_response") /\ message_data'.choice_id = "skip") =>
            /\ sent' = Append(sent, RespectfulEndingMsg)
            /\ pc' = At("done")
       /\ pc = At("done") => UNCHANGED vars]_vars

\* skip was chosen after the reveal sequence
C8_Witness ==
    /\ pc = At("done")
    /\ connected
    /\ message_data.choice_id = "skip"
    /\ LastSent = RespectfulEndingMsg
    /\ Len(sent) >= 2
    /\ sent[Len(sent) - 1].type = "interactive_choice"

(* C9: a choice_response with choice_id "reveal" sends ultimate_reveal, then
   finale, and no other message; with the finale the handler has returned and
   takes no further step. *)
C9_RevealThenFinale ==
    (message_data.type = "choice_response" /\ message_data.choice_id = "reveal"
        /\ connected) =>
        \/ pc = At("finale") /\ TypesOf(SentSince) = <<"ultimate_reveal">>
        \/ /\ pc = At("done")
           /\ TypesOf(SentSince) = <<"ultimate_reveal", "finale">>
           /\ ~ENABLED Next

\* reveal was chosen after the reveal sequence, and the finale is out
C9_Witness ==
    /\ pc = At("done")
    /\ connected
    /\ message_data.choice_id = "reveal"
    /\ LastSent.type = "finale"
    /\ Len(sent) >= 3
    /\ sent[Len(sent) - 2].type = "interactive_choice"

(* C10: when the call of the model fails, or there is no model, the initial
   or answer that asks for a follow-up is answered by one follow_up message
   carrying the fallback text of the except branch: no error is sent, the
   handler goes on waiting for frames, and the counter and the history grow
   by one as they do when the call succeeds. *)
C10_FailureFallsBack ==
    [][LET user_message == StripSet(message_data'.message, {" ", "\t", "\n"})
           asks == \/ Received("initial") /\ ~Blank(message_data'.message)
                   \/ Received("answer") /\ follow_up_count < max_follow_ups
           text == exception_fallback(keyword_to_use(user_message))
       IN  (asks /\ (~model_configured \/ ~response'.ok)) =>
              /\ sent' = Append(sent,
                    FollowUpMsg(text, follow_up_count + 1, max_follow_ups))
              /\ conversation_history' =
                    Append(conversation_history, [user |-> user_message, ai |-> text])
              /\ follow_up_count' = follow_up_count + 1
              /\ pc' = At("recv")]_vars

\* three follow-ups were sent although no call of the model ever succeeded
C10_Witness ==
    /\ ~model_configured
    /\ follow_up_count = 3
    /\ Len(sent) = 3
    /\ \A i \in 1..3 :
          /\ sent[i].type = "follow_up"
          /\ sent[i].question = conversation_history[i].ai
          /\ sent[i].question = exception_fallback(<<"h","a","t","e">>)

-----------------------------------------------------------------------------
(* analyze_conversation on its own: one history, analysed twice *)

Turn(user) == [user |-> user, ai |-> <<>>]

AnHistories ==
    { <<>>,
      <<Turn(<<"W","H","Y"," ","d","o"," ","I"," ","H","A","T","E"," ","t","h","i","s","?">>)>>,
      <<Turn(<<"w","h","y","?">>), Turn(<<"n","e","v","e","r">>)>>,
      <<Turn(<<"i"," ","l","o","v","e"," ","i","t"," ","a","n","d"," ","i"," ","a","m"," ","s","o"," ","e","x","c","i","t","e","d"," ","a","b","o","u","t"," ","e","v","e","r","y"," ","s","i","n","g","l","e"," ","d","a","y"," ","h","e","r","e">>)>>,
      <<Turn(<<"i"," ","l","o","v","e"," ","t","o"," ","b","u","i","l","d"," ","t","h","i","n","g","s"," ","b","e","c","a","u","s","e"," ","i"," ","a","c","t","u","a","l","l","y"," ","t","r","y"," ","t","h","e","m"," ","o","u","t"," ","e","v","e","r","y"," ","d","a","y">>)>>,
      <<Turn(<<"i"," ","b","u","i","l","d"," ","w","h","e","n"," ","i"," ","c","a","n">>)>>,
      <<Turn(<<"t","h","e"," ","w","i","n","d","o","w"," ","b","r","o","k","e"," ","w","h","e","n"," ","i","t"," ","r","a","i","n","e","d">>)>>,
      <<Turn(<<"t","h","e"," ","s","e","a"," ","i","s"," ","c","a","l","m"," ","a","n","d"," ","t","h","e"," ","s","k","y"," ","i","s"," ","g","r","e","y"," ","o","v","e","r"," ","t","h","e"," ","l","o","n","g"," ","p","i","e","r">>)>>,
      <<Turn(<<"t","h","e"," ","s","e","a"," ","i","s"," ","c","a","l","m"," ","a","n","d"," ","t","h","e"," ","s","k","y"," ","i","s"," ","g","r","e","y"," ","o","v","e","r"," ","t","h","e"," ","l","o","n","g"," ","p","i","e","r">>),
        Turn(<<"o","k"," ","t","h","e","n">>)>>,
      <<Turn(<<"t","h","e"," ","s","e","a"," ","i","s"," ","c","a","l","m"," ","a","n","d"," ","t","h","e"," ","s","k","y"," ","i","s"," ","g","r","e","y"," ","o","v","e","r"," ","t","h","e"," ","l","o","n","g"," ","p","i","e","r">>),
        Turn(<<"a","n","d"," ","i","t"," ","i","s"," ","g","r","e","y"," ","a","g","a","i","n">>)>>,
      <<Turn(<<"i"," ","l","o","v","e"," ","i","t">>)>>,
      <<Turn(<<"i"," ","h","a","t","e"," ","i","t">>)>>,
      <<Turn(<<"o","k">>)>> }

AnAt(call, place) == [call |-> call, at |-> place]

AnInit ==
    /\ SessionInit
    /\ model_configured
    /\ GenIdle
    /\ TwoIdle
    /\ an_pc = AnAt(1, "rules")
    /\ an_history \in AnHistories
    /\ an_first = NoAnalysis
    /\ an_second = NoAnalysis

\* the result the call under way is building
AnCurrent == IF an_pc.call = 1 THEN an_first ELSE an_second

AnSet(result) ==
    IF an_pc.call = 1
    THEN an_first' = result /\ UNCHANGED an_second
    ELSE an_second' = result /\ UNCHANGED an_first

AnFrame ==
    /\ UNCHANGED an_history
    /\ UNCHANGED sessionVars
    /\ UNCHANGED <<genVars, twoVars>>

\* the empty history returns the default; otherwise the rules pick the type
AnalyzeRules ==
    /\ an_pc.at = "rules"
    /\ IF an_history = <<>>
       THEN /\ AnSet(default_analysis)
            /\ an_pc' = AnAt(an_pc.call, "returned")
       ELSE /\ AnSet([NoAnalysis EXCEPT !.type = analyze_conversation(an_history)])
            /\ an_pc' = AnAt(an_pc.call, "engagement")
    /\ AnFrame

AnalyzeEngagement ==
    /\ an_pc.at = "engagement"
    /\ \E draw \in EngagementDraws : AnSet(with_engagement(AnCurrent, an_history, draw))
    /\ an_pc' = AnAt(an_pc.call, "honesty")
    /\ AnFrame

AnalyzeHonesty ==
    /\ an_pc.at = "honesty"
    /\ \E draw \in HonestyDraws : AnSet(with_honesty(AnCurrent, draw))
    /\ an_pc' = AnAt(an_pc.call, "returned")
    /\ AnFrame

\* the same history is analysed once more
AnalyzeAgain ==
    /\ an_pc = AnAt(1, "returned")
    /\ an_pc' = AnAt(2, "rules")
    /\ UNCHANGED <<an_first, an_second>>
    /\ AnFrame

AnNext ==
    \/ AnalyzeRules
    \/ AnalyzeEngagement
    \/ AnalyzeHonesty
    \/ AnalyzeAgain

SpecAnalyze == AnInit /\ [][AnNext]_vars

-----------------------------------------------------------------------------
(* Two connections served by one event loop: websocket_endpoint runs once
   for each, as a task of its own *)

Conns == {1, 2}

\* frames the two connections may receive in all
MaxTwoFrames == 5

RECURSIVE FramesOf(_, _)
FramesOf(tasks, cs) ==
    IF cs = {} THEN 0
    ELSE LET c == CHOOSE c \in cs : TRUE
         IN  tasks[c].nframes + FramesOf(tasks, cs \ {c})

TwoInitialTexts == {<<>>, <<"I"," ","h","a","t","e"," ","m","a","t","h">>}

TwoAnswerTexts == {<<"I"," ","h","a","t","e"," ","m","a","t","h">>}

\* ConversationManager.__init__
FreshManager == [conversation_history |-> <<>>, follow_up_count |-> 0]

TaskAt(place) ==
    [pc |-> place, sent |-> <<>>, nframes |-> 0, connected |-> TRUE,
     user_message |-> <<>>]

TwoInit ==
    /\ SessionInit
    /\ GenIdle
    /\ AnIdle
    /\ managers = <<>>
    /\ conversation = [c \in Conns |-> 0]
    /\ task = [c \in Conns |-> TaskAt(At("accept"))]

TwoFrame ==
    /\ UNCHANGED sessionVars
    /\ UNCHANGED <<genVars, anVars>>

\* one manager object that every connection is handed
SharedManager(heap) == 1

\* ConversationManager(): an object that did not exist before
NewManager(heap) == Len(heap) + 1

Store(heap, id, object) ==
    [i \in DOMAIN heap \cup {id} |-> IF i = id THEN object ELSE heap[i]]

\* the object the local conversation of connection c refers to
Manager(c) == managers[conversation[c]]

\* model.generate_content is an ordinary call, not an await: while it is
\* pending in one task, the event loop runs no other task
Running(c) == \A d \in Conns \ {c} : task[d].pc # At("generating")

TaskStep(c, place, types, got) ==
    task' = [task EXCEPT ![c] =
                [@ EXCEPT !.pc = place,
                          !.sent = @ \o types,
                          !.nframes = @ + got,
                          !.user_message = <<>>]]

\* websocket.accept() and conversation = ConversationManager()
Accept(c) ==
    /\ task[c].pc = At("accept")
    /\ Running(c)
    /\ LET id == NewManager(managers)
       IN  /\ managers' = Store(managers, id, FreshManager)
           /\ conversation' = [conversation EXCEPT ![c] = id]
    /\ TaskStep(c, At("recv"), <<>>, 0)
    /\ TwoFrame

TwoReceivable(c) ==
    /\ task[c].pc = At("recv")
    /\ task[c].connected
    /\ FramesOf(task, Conns) < MaxTwoFrames
    /\ Running(c)

\* generate_follow_up_question has returned: history, counter, follow_up
TwoFollowUp(c, user_message, outcome, got) ==
    LET m == Manager(c)
        follow_up == generate_follow_up_question(user_message, m.follow_up_count, outcome)
    IN  /\ managers' = [managers EXCEPT ![conversation[c]] =
              [conversation_history |->
                   add_to_history(m.conversation_history, user_message, follow_up),
               follow_up_count |-> increment_follow_up(m.follow_up_count)]]
        /\ TaskStep(c, At("recv"), <<"follow_up">>, got)
        /\ UNCHANGED conversation

\* generate_follow_up_question is entered: without a model it raises at once
\* and returns the fallback, with a model the call of the model is pending
TwoGenerate(c, user_message) ==
    IF model_configured
    THEN /\ task' = [task EXCEPT ![c] =
                        [@ EXCEPT !.pc = At("generating"),
                                  !.nframes = @ + 1,
                                  !.user_message = user_message]]
         /\ UNCHANGED <<managers, conversation>>
    ELSE TwoFollowUp(c, user_message, ModelFailure, 1)

TwoRecvInitial(c) ==
    /\ TwoReceivable(c)
    /\ \E text \in TwoInitialTexts :
          IF Strip(text) = <<>>
          THEN /\ TaskStep(c, At("recv"), <<"error">>, 1)
               /\ UNCHANGED <<managers, conversation>>
          ELSE TwoGenerate(c, Strip(text))
    /\ TwoFrame

TwoRecvAnswer(c) ==
    /\ TwoReceivable(c)
    /\ \E text \in TwoAnswerTexts :
          IF is_complete(Manager(c).follow_up_count)
          THEN /\ TaskStep(c, InReveal(1), <<RevealMessage(1, NoBonus).type>>, 1)
               /\ UNCHANGED <<managers, conversation>>
          ELSE TwoGenerate(c, Strip(text))
    /\ TwoFrame

\* the call of the model returns or raises; the handler goes on to its send
TwoGenReturn(c) ==
    /\ task[c].pc = At("generating")
    /\ \E outcome \in ModelOutcomes(TRUE) :
          TwoFollowUp(c, task[c].user_message, outcome, 0)
    /\ TwoFrame

TwoRecvChoice(c) ==
    /\ TwoReceivable(c)
    /\ \E choice_id \in ChoiceIds :
          IF choice_id = "reveal"
          THEN TaskStep(c, At("finale"), <<"ultimate_reveal">>, 1)
          ELSE IF choice_id = "skip"
          THEN TaskStep(c, ChoiceBreak, <<"respectful_ending">>, 1)
          ELSE TaskStep(c, ChoiceBreak, <<>>, 1)
    /\ UNCHANGED <<managers, conversation>>
    /\ TwoFrame

TwoRecvUnknown(c) ==
    /\ TwoReceivable(c)
    /\ TaskStep(c, At("recv"), <<"error">>, 1)
    /\ UNCHANGED <<managers, conversation>>
    /\ TwoFrame

\* except Exception in the task of c: its last error message, its return
TwoRecvMalformed(c) ==
    /\ TwoReceivable(c)
    /\ TaskStep(c, At("done"), <<"error">>, 1)
    /\ UNCHANGED <<managers, conversation>>
    /\ TwoFrame

TwoRevealStep(c) ==
    /\ task[c].pc.at = "reveal"
    /\ task[c].connected
    /\ Running(c)
    /\ LET k == task[c].pc.step + 1
       IN  TaskStep(c, IF k = RevealSteps THEN At("recv") ELSE InReveal(k),
                    <<RevealMessage(k, NoBonus).type>>, 0)
    /\ UNCHANGED <<managers, conversation>>
    /\ TwoFrame

TwoFinale(c) ==
    /\ task[c].pc = At("finale")
    /\ task[c].connected
    /\ Running(c)
    /\ TaskStep(c, ChoiceBreak, <<"finale">>, 0)
    /\ UNCHANGED <<managers, conversation>>
    /\ TwoFrame

\* except WebSocketDisconnect in the task of c
TwoDisconnect(c) ==
    /\ task[c].pc.at \in {"recv", "reveal", "finale"}
    /\ task[c].connected
    /\ Running(c)
    /\ task' = [task EXCEPT ![c] = [@ EXCEPT !.pc = At("done"), !.connected = FALSE]]
    /\ UNCHANGED <<managers, conversation>>
    /\ TwoFrame

TwoNext ==
    \/ \E c \in Conns : Accept(c)
    \/ \E c \in Conns : TwoRecvInitial(c)
    \/ \E c \in Conns : TwoRecvAnswer(c)
    \/ \E c \in Conns : TwoGenReturn(c)
    \/ \E c \in Conns : TwoRecvChoice(c)
    \/ \E c \in Conns : TwoRecvUnknown(c)
    \/ \E c \in Conns : TwoRecvMalformed(c)
    \/ \E c \in Conns : TwoRevealStep(c)
    \/ \E c \in Conns : TwoFinale(c)
    \/ \E c \in Conns : TwoDisconnect(c)

SpecTwo == TwoInit /\ [][TwoNext]_vars

(* C11: get_ultimate_bonus_package never yields a bundle while is_complete()
   is false: no ultimate_reveal is built from a session with fewer than
   max_follow_ups follow-ups; the attempt ends the session instead. *)
C11_NoRevealBeforeComplete ==
    \A i \in 1..Len(sent) :
        sent[i].type = "ultimate_reveal" => follow_up_count >= max_follow_ups

(* C12: in any state, a frame of an unknown type yields exactly one error
   message, leaves follow_up_count and conversation_history as they are, and
   the handler goes on waiting for frames. *)
C12_UnknownTypeRejected ==
    [][Received("#unknown") =>
          /\ sent' = Append(sent, ErrorMsg(UnknownTypeText))
          /\ follow_up_count' = follow_up_count
          /\ conversation_history' = conversation_history
          /\ pc' = At("recv")]_vars

\* an unknown type was rejected after the choice had been offered
C12_Witness ==
    /\ message_data.type = "#unknown"
    /\ pc = At("recv")
    /\ LastSent = ErrorMsg(UnknownTypeText)
    /\ Len(sent) >= 2
    /\ sent[Len(sent) - 1].type = "interactive_choice"
    /\ follow_up_count = max_follow_ups

(* C13: a malformed frame makes the server send an error message and leaves
   the phase as it was: the handler goes on waiting for frames. *)
C13_MalformedKeepsSession ==
    [][Received("#malformed") =>
          /\ Len(sent') = Len(sent) + 1
          /\ sent'[Len(sent')].type = "error"
          /\ pc' = At("recv")]_vars

(* C14: a choice_response whose choice_id is neither reveal nor skip, or is
   missing, is answered by an error message and does not end the session. *)
C14_OtherChoiceRejected ==
    [][(Received("choice_response")
           /\ message_data'.choice_id \notin {"reveal", "skip"}) =>
          /\ Len(sent') = Len(sent) + 1
          /\ sent'[Len(sent')].type = "error"
          /\ pc' = At("recv")]_vars

(* C15: an answer whose text is empty or only whitespace is rejected with an
   error message and changes neither the counter nor the history, so every
   turn of conversation_history has a user text that is not empty. *)
C15_BlankAnswerRejected ==
    /\ [](\A i \in 1..Len(conversation_history) :
              conversation_history[i].user # <<>>)
    /\ [][(Received("answer") /\ Blank(message_data'.message)) =>
             /\ Len(sent') = Len(sent) + 1
             /\ sent'[Len(sent')].type = "error"
             /\ follow_up_count' = follow_up_count
             /\ conversation_history' = conversation_history]_vars

(* C16: when the connection is lost, while the handler waits for a frame or
   sleeps inside the reveal sequence, the handler returns; nothing is sent in
   that step or ever after, and the sequence is not taken up again. *)
C16_DisconnectEndsSession ==
    [][/\ (connected /\ ~connected') => (pc' = At("done") /\ sent' = sent)
       /\ ~connected => UNCHANGED vars]_vars

\* the peer left in the middle of the reveal sequence
C16_Witness ==
    /\ ~connected
    /\ pc = At("done")
    /\ Len(sent) > base
    /\ sent[base + 1].type = "complete"
    /\ Len(SentSince) \in 1..(RevealSteps - 1)

(* C17: two analyses of the same history yield the same personality type,
   whatever the random draws of each; the draws show in the two scores
   only. *)
C17_CategoryIgnoresDraws ==
    an_pc = AnAt(2, "returned") => an_first.type = an_second.type

\* the two analyses drew differently, and both scores differ
C17_Witness ==
    /\ an_pc = AnAt(2, "returned")
    /\ an_history # <<>>
    /\ an_first.engagement_score # an_second.engagement_score
    /\ an_first.honesty_level # an_second.honesty_level

\* the features the rules combine, read off the user texts of the history
HistoryText(history) ==
    Lower(Join([i \in 1..Len(history) |-> history[i].user], <<" ">>))

HasMarker(history, markers) ==
    \E m \in markers : Contains(HistoryText(history), m)

RECURSIVE WordsIn(_)
WordsIn(history) ==
    IF history = <<>> THEN 0
    ELSE Len(Split(history[1].user)) + WordsIn(Tail(history))

\* the category the fixed order of the rules gives, first match first
RuleOrderCategory(history) ==
    LET negatives == HasMarker(history, {<<"h","a","t","e">>, <<"d","e","s","p","i","s","e">>, <<"c","a","n","'","t"," ","s","t","a","n","d">>, <<"n","e","v","e","r">>})
        positives == HasMarker(history, {<<"l","o","v","e">>, <<"a","d","o","r","e">>, <<"p","a","s","s","i","o","n","a","t","e">>, <<"e","x","c","i","t","e","d">>})
        questions == HasMarker(history, {<<"?">>, <<"w","h","y">>, <<"h","o","w">>, <<"w","h","a","t"," ","i","f">>})
        actions == HasMarker(history, {<<"d","o">>, <<"b","u","i","l","d">>, <<"m","a","k","e">>, <<"c","r","e","a","t","e">>, <<"t","r","y">>})
        specifics == HasMarker(history,
                        {<<"w","h","e","n">>, <<"b","e","c","a","u","s","e">>, <<"e","x","a","m","p","l","e">>, <<"s","p","e","c","i","f","i","c","a","l","l","y">>, <<"a","c","t","u","a","l","l","y">>})
        detailed == WordsIn(history) > 8 * Len(history)
    IN  CASE questions /\ negatives -> "The Rebel Learner"
          [] ~(questions /\ negatives) /\ positives /\ detailed -> "The Passionate Explorer"
          [] ~(questions /\ negatives) /\ ~(positives /\ detailed)
                /\ actions /\ specifics -> "The Practical Builder"
          [] ~(questions /\ negatives) /\ ~(positives /\ detailed)
                /\ ~(actions /\ specifics) /\ detailed /\ ~actions -> "The Thoughtful Analyst"
          [] OTHER -> "The Adaptive Chameleon"

(* C18: for every history that is not empty, analyze_conversation picks the
   category by the first rule that matches, in the order rebel_learner
   (question markers and strong negatives), passionate_explorer (strong
   positives and more than 8 words per turn on average), practical_builder
   (action words and specificity markers), thoughtful_analyst (more than 8
   words per turn and no action word), adaptive_chameleon. *)
C18_FirstMatchingRule ==
    (an_pc = AnAt(1, "returned") /\ an_history # <<>>) =>
        an_first.type = RuleOrderCategory(an_history)

\* the second and the third rule both match, and the second one wins
C18_Witness ==
    /\ an_pc = AnAt(1, "returned")
    /\ an_history # <<>>
    /\ HasMarker(an_history, {<<"l","o","v","e">>})
    /\ HasMarker(an_history, {<<"b","u","i","l","d">>})
    /\ HasMarker(an_history, {<<"b","e","c","a","u","s","e">>})
    /\ WordsIn(an_history) > 8 * Len(an_history)
    /\ an_first.type = "The Passionate Explorer"

\* the names of the five categories of PERSONALITY_TYPES
FiveCategories ==
    { PersonalityName(key) :
        key \in {"rebel_learner", "passionate_explorer", "practical_builder",
                 "thoughtful_analyst", "adaptive_chameleon"} }

(* C19: every personality type carried by a personality_reveal or an
   ultimate_reveal message that was sent is one of the five categories. *)
C19_RevealedTypeIsOneOfFive ==
    \A i \in 1..Len(sent) :
        sent[i].type \in {"personality_reveal", "ultimate_reveal"} =>
            sent[i].personality_type \in FiveCategories

\* the first frame, the example's initial, has been handled
OpeningHandled ==
    /\ pc = At("recv")
    /\ nframes = 1
    /\ message_data = Frame("initial", OpeningText, "")

(* C20 as stated: for the initial "I hate studying because it's pointless" on
   a fresh session the required keyword is "studying" or "hate", the follow-up
   question sent contains it, follow_up_count becomes 1 and the session stays
   in the questioning phase. *)
C20_KeywordStudyingOrHate ==
    OpeningHandled =>
        /\ keyword_to_use(Strip(message_data.message)) \in {<<"s","t","u","d","y","i","n","g">>, <<"h","a","t","e">>}
        /\ LastSent.type = "follow_up"
        /\ Contains(Lower(LastSent.question), keyword_to_use(Strip(message_data.message)))
        /\ follow_up_count = 1
        /\ Phase = "QUESTIONING"

(* C20, amended: for the initial "I hate studying because it's pointless" on
   a fresh session the required keyword is "pointless", the longest word left
   by the stop-word and length rule; the follow-up question sent contains it,
   follow_up_count becomes 1 and the session stays in the questioning
   phase. *)
C20_KeywordPointless ==
    OpeningHandled =>
        /\ keyword_to_use(Strip(message_data.message)) = <<"p","o","i","n","t","l","e","s","s">>
        /\ extract_keywords(Strip(message_data.message)) =
              <<<<"p","o","i","n","t","l","e","s","s">>, <<"s","t","u","d","y","i","n","g">>, <<"h","a","t","e">>>>
        /\ LastSent.type = "follow_up"
        /\ Contains(Lower(LastSent.question), <<"p","o","i","n","t","l","e","s","s">>)
        /\ follow_up_count = 1
        /\ Phase = "QUESTIONING"

\* the model's own question was kept because it names the keyword
C20_Witness ==
    /\ OpeningHandled
    /\ response.ok
    /\ LastSent.question = <<"W","h","y"," ","p","o","i","n","t","l","e","s","s","?">>
    /\ follow_up_count = 1

(* C21: the answer whose handling brings follow_up_count to max_follow_ups
   is itself answered by the reveal sequence: the sequence starts in that step,
   without a further frame from the peer. *)
C21_CompletingAnswerReveals ==
    [][(/\ Received("answer")
        /\ follow_up_count < max_follow_ups
        /\ follow_up_count' = max_follow_ups) =>
           /\ pc'.at = "reveal"
           /\ sent'[Len(sent')].type = "complete"]_vars

\* the calls of get_ultimate_bonus_package so far: one before every
\* personality_reveal, one before every ultimate_reveal that was sent
BundleCalls ==
    Cardinality({i \in 1..Len(sent) :
                    sent[i].type \in {"personality_reveal", "ultimate_reveal"}})

(* C22: in a session the reveal bundle is computed at most once, whatever the
   peer sends; a later message is built from that bundle, not from a new
   call of get_ultimate_bonus_package. *)
C22_BundleComputedOnce == BundleCalls <= 1

\* connection c is accepted and its task took no part in this step
Bystander(c) == task[c].pc # At("accept") /\ task'[c] = task[c]

(* C23: with two connections served at once, the follow_up_count and the
   conversation_history of a session change only in steps of its own
   connection's task; and once the task of one connection has ended, by an
   exception or a disconnect, the other connection still has its frames
   received and handled. *)
C23_SessionsIsolated ==
    /\ [][\A c \in Conns : Bystander(c) => Manager(c)' = Manager(c)]_vars
    /\ [](\A c \in Conns : \A d \in Conns \ {c} :
             (/\ task[d].pc = At("done")
              /\ task[c].pc = At("recv")
              /\ task[c].connected
              /\ FramesOf(task, Conns) < MaxTwoFrames) =>
                 ENABLED TwoRecvUnknown(c))

\* one session was ended by an exception after it had progressed, and the
\* other one has progressed as well and waits for its next frame
C23_Witness ==
    \E c \in Conns : \E d \in Conns \ {c} :
        /\ task[d].pc = At("done")
        /\ task[d].connected
        /\ task[d].sent = <<"follow_up", "error">>
        /\ Manager(d).follow_up_count = 1
        /\ task[c].pc = At("recv")
        /\ Manager(c).follow_up_count = 2
        /\ Len(Manager(c).conversation_history) = 2

(* C24: while the call of the model made for one connection is pending, the
   task of another connection that waits for a frame can receive it and
   send its messages. *)
C24_GenerationDoesNotBlock ==
    \A c \in Conns : \A d \in Conns \ {c} :
        (/\ task[c].pc = At("generating")
         /\ task[d].pc = At("recv")
         /\ task[d].connected
         /\ FramesOf(task, Conns) < MaxTwoFrames) =>
            ENABLED TwoRecvUnknown(d)

\* the style the design assigns to the value of follow_up_count at the call
StyleOf(count) ==
    CASE count = 0 -> "curiosity_opener"
      [] count = 1 -> "pattern_interrupt"
      [] count >= 2 -> "deep_dive"

\* the model's text was read and thrown away for lacking the keyword
KeywordLacking ==
    /\ gen_outcome.ok
    /\ ~Contains(Lower(strip_quotes(gen_outcome.text)), Lower(keyword_to_use(gen_input)))

(* C25: the trigger style of a follow-up depends on follow_up_count at the
   call and on nothing else: 0 gives curiosity_opener, 1 gives
   pattern_interrupt, every value from 2 on gives deep_dive; the question that
   replaces a text without the keyword is the template of that style. *)
C25_StyleByCount ==
    gen_pc = "returned" =>
        /\ trigger_style(gen_count) = StyleOf(gen_count)
        /\ KeywordLacking =>
              gen_result = style_fallback(StyleOf(gen_count), keyword_to_use(gen_input))

\* a call at count 1 answered by the template of the pattern interrupt
C25_Witness ==
    /\ gen_pc = "returned"
    /\ gen_count = 1
    /\ KeywordLacking
    /\ gen_input = <<"L","o","v","e"," "," ","C","O","D","I","N","G","!">>
    /\ gen_result = style_fallback("pattern_interrupt", <<"c","o","d","i","n","g">>)

\* the tokens the reference keeps: lower-cased, punctuation stripped, no stop
\* word, longer than 2
KeptTokens(text) ==
    LET cleaned == SelectSeq(Lower(text), LAMBDA c : IsWordChar(c) \/ IsSpace(c))
    IN  SelectSeq(Split(cleaned), LAMBDA w : w \notin stop_words /\ Len(w) > 2)

\* the place of the i-th token when the longer go first and equal lengths
\* keep the order in which they occur
PlaceOf(ws, i) ==
    1 + Cardinality({j \in 1..Len(ws) :
                        \/ Len(ws[j]) > Len(ws[i])
                        \/ Len(ws[j]) = Len(ws[i]) /\ j < i})

ByLength(ws) ==
    [k \in 1..Len(ws) |-> ws[CHOOSE i \in 1..Len(ws) : PlaceOf(ws, i) = k]]

ReferenceKeywords(text) ==
    IF KeptTokens(text) # <<>>
    THEN SubSeq(ByLength(KeptTokens(text)), 1, Min(3, Len(KeptTokens(text))))
    ELSE SubSeq(Split(text), 1, Min(2, Len(Split(text))))

(* C26: for every input text the keyword list of generate_follow_up_question
   is the reference list: the at most 3 longest tokens left after
   lower-casing, stripping punctuation, removing stop words and dropping
   tokens of length 2 or less, longest first, ties in order of occurrence;
   and when no such token is left, the first two whitespace-split tokens of
   the original text, uncleaned. *)
C26_KeywordsAsReference ==
    gen_pc = "returned" => follow_up_keywords(gen_input) = ReferenceKeywords(gen_input)

(* C27: whenever the model's text is discarded, because the call failed or
   because the text lacks the required keyword, the question returned is the
   template of the current trigger style filled with the required keyword. *)
C27_DiscardedGetsStyleTemplate ==
    (gen_pc = "returned" /\ (~gen_outcome.ok \/ KeywordLacking)) =>
        gen_result = style_fallback(StyleOf(gen_count), keyword_to_use(gen_input))

\* a character that the stripping of quotes is meant to remove
QuoteChars == {"\"", "'", "U+0060"}

(* C28: the question generate_follow_up_question returns neither begins nor
   ends with a double quote, a single quote or a backtick, whatever text the
   model returned, also a text wrapped in quotes of several kinds. *)
C28_NoSurroundingQuotes ==
    (gen_pc = "returned" /\ gen_result # <<>>) =>
        /\ gen_result[1] \notin QuoteChars
        /\ gen_result[Len(gen_result)] \notin QuoteChars

(* C29: in every reachable state of a session conversation_history has as
   many turns as follow_up_count says: a turn is appended in the very steps
   that increment the counter, and no other step, be it an error, the reveal
   sequence or a choice, changes either of them. *)
C29_HistoryMatchesCount ==
    /\ [](Len(conversation_history) = follow_up_count)
    /\ [][\/ /\ conversation_history' = conversation_history
             /\ follow_up_count' = follow_up_count
          \/ /\ Len(conversation_history') = Len(conversation_history) + 1
             /\ follow_up_count' = follow_up_count + 1
             /\ sent'[Len(sent')].type = "follow_up"]_vars

\* a session that ran through follow-ups, the reveal sequence and the choice
C29_Witness ==
    /\ pc = At("done")
    /\ follow_up_count = 3
    /\ Len(conversation_history) = 3
    /\ \E i \in 1..Len(sent) : sent[i].type = "interactive_choice"
    /\ LastSent.type = "finale"

\* the messages that answer a choice
ChoiceAnswers == {"ultimate_reveal", "finale", "respectful_ending"}

(* C30: an ultimate_reveal, a finale or a respectful_ending is sent only after
   the interactive_choice prompt was sent earlier in the same session; a
   choice_response that arrives before, in the awaiting-initial or the
   questioning phase, yields none of them. *)
C30_ChoiceOnlyAfterPrompt ==
    \A i \in 1..Len(sent) :
        sent[i].type \in ChoiceAnswers =>
            \E j \in 1..(i - 1) : sent[j].type = "interactive_choice"

(* C31: once the interactive_choice prompt was sent the session does not go
   back: no follow_up is sent any more, the reveal sequence is not started
   again, and follow_up_count and conversation_history stay as they are,
   whatever initial or answer frames arrive before the choice. *)
C31_NoWayBackAfterPrompt ==
    [][Prompted =>
          /\ follow_up_count' = follow_up_count
          /\ conversation_history' = conversation_history
          /\ \A i \in (Len(sent) + 1)..Len(sent') :
                sent'[i].type \notin {"follow_up", "complete"}]_vars

(* C32: until an initial frame with a text that is not blank was received, no
   follow_up is sent and follow_up_count stays 0: an answer that arrives in
   the awaiting-initial phase generates no follow-up. *)
C32_NothingBeforeInitial ==
    [][(follow_up_count = 0 /\ ~(Received("initial") /\ ~Blank(message_data'.message))) =>
          /\ follow_up_count' = 0
          /\ \A i \in (Len(sent) + 1)..Len(sent') : sent'[i].type # "follow_up"]_vars

(* C33: the answer that starts the reveal sequence changes neither
   follow_up_count nor conversation_history: its text is not appended as a
   turn, and the personality the sequence reveals is the analysis of the
   turns recorded before that answer, whatever its text. *)
C33_TriggeringAnswerNotStored ==
    /\ [][(Received("answer") /\ pc'.at = "reveal") =>
             /\ follow_up_count' = follow_up_count
             /\ conversation_history' = conversation_history]_vars
    /\ [](pc = InReveal(5) =>
             /\ LastSent.type = "personality_reveal"
             /\ LastSent.personality_type = analyze_conversation(conversation_history)
             /\ Len(conversation_history) = nframes - 1)

\* the triggering answer asks a question, which alone would make a rebel of
\* the user, yet the turns recorded before it decide
C33_Witness ==
    /\ pc = InReveal(5)
    /\ message_data = Frame("answer", <<"w","h","y"," ","b","u","i","l","d","?">>, "")
    /\ \A i \in 1..Len(conversation_history) :
          conversation_history[i].user = <<"I"," ","h","a","t","e"," ","m","a","t","h">>
    /\ LastSent.personality_type = PersonalityName("adaptive_chameleon")
    /\ analyze_conversation(
          add_to_history(conversation_history, <<"w","h","y"," ","b","u","i","l","d","?">>, <<>>))
            = PersonalityName("rebel_learner")

(* C34: within one session the personality type carried by ultimate_reveal
   is the one carried by the personality_reveal sent before it, whatever
   frames were received between the two. *)
C34_SameTypeInBothReveals ==
    \A i \in 1..Len(sent) : \A j \in (i + 1)..Len(sent) :
        (sent[i].type = "personality_reveal" /\ sent[j].type = "ultimate_reveal") =>
            sent[j].personality_type = sent[i].personality_type

(* C35: when the peer stays connected, sends an initial that is not empty,
   answers that are not empty until it has the interactive_choice prompt,
   and then a choice_response with choice_id reveal or skip, and every call
   of the model returns or fails, the session terminates under fair
   scheduling, and the last message it sent is finale or
   respectful_ending. *)
C35_DesignRunTerminates ==
    /\ <>(pc = At("done"))
    /\ [](pc = At("done") =>
             /\ LastSent.type \in {"finale", "respectful_ending"}
             /\ ~ENABLED DesignNext)

\* the handler has returned after the peer chose to skip
C35_Witness ==
    /\ pc = At("done")
    /\ connected
    /\ nframes = ScenarioAnswers + 2
    /\ follow_up_count = max_follow_ups
    /\ Prompted
    /\ LastSent.type = "respectful_ending"

=============================================================================
